---- MODULE Spec2Model ----
(***************************************************************************)
(* SBSON reference codec (python-refimpl): the CHD perfect-hash builder    *)
(* of phf.py and the encoder/decoder of sbson_refimpl.py.                  *)
(*                                                                         *)
(* Python integers are unbounded and TLC's are 32-bit, so every quantity   *)
(* that can reach 2^31 is kept in limbs:                                   *)
(*   - a 32-bit hash word is [hi, lo], two 16-bit limbs;                   *)
(*   - a u32 read from a buffer is [hi8, lo24];                            *)
(*   - a Python int value of a document is [neg, mag], mag being nine      *)
(*     base-256 digits, least significant first.                           *)
(***************************************************************************)
EXTENDS Integers, Sequences, FiniteSets, TLC

VARIABLES
    tree,     \* the object handed to encode / the dict handed to try_build_map
    tree2,    \* the same logical tree, its dicts built in another insertion order
    thr,      \* EncodeOptions.phf_threshold
    digest,   \* SipHash13_128 digests: digest[key][seed] = [low, high]
    pc,       \* position of the run
    enc,      \* result of encode(tree, options)
    enc2,     \* result of encode on the same dict built in another insertion order
    doc,      \* an encoded document with one byte replaced
    dec,      \* result of decode
    bs,       \* locals of try_build_hash_state
    hm,       \* result of try_build_map
    qkey,     \* key handed to map_get / contains_key
    res,      \* result of map_get / contains_key
    dl        \* locals of the descriptor loop of encode_map / _encode_map_chd

vars == <<tree, tree2, thr, digest, pc, enc, enc2, doc, dec, bs, hm, qkey, res, dl>>

(***************************************************************************)
(* Bounds of the model.                                                    *)
(***************************************************************************)
\* largest dict handed to the CHD builder on its own
MaxKeys == 6
\* the interpreter's recursion limit, in nested decode calls
RecursionLimit == 6
\* passes of a descriptor loop that are followed
MaxDescSteps == 3
\* the most keys of a list handed to _sort_eytzinger
MaxEytzKeys == 5

(***************************************************************************)
(* Program constants.                                                      *)
(***************************************************************************)
Lambda == 5
FirstSeed == 1280
None == -1
NoDisp == <<>>

Min(a, b) == IF a < b THEN a ELSE b

(***************************************************************************)
(* 32-bit words in two 16-bit limbs.                                       *)
(***************************************************************************)
W32(hi, lo) == [hi |-> hi, lo |-> lo]

\* (w * d) & 0xFFFFFFFF for a small non-negative d (d < 2^15)
Mul32(w, d) ==
    LET p == w.lo * d
    IN W32((w.hi * d + (p \div 65536)) % 65536, p % 65536)

\* (w + d) & 0xFFFFFFFF for a small non-negative d
Add32s(w, d) ==
    LET s == w.lo + (d % 65536)
    IN W32((w.hi + (d \div 65536) + (s \div 65536)) % 65536, s % 65536)

\* (w + v) & 0xFFFFFFFF
Add32(w, v) ==
    LET s == w.lo + v.lo
    IN W32((w.hi + v.hi + (s \div 65536)) % 65536, s % 65536)

\* w % m for a small positive m
ModW(w, m) == (((w.hi % m) * (65536 % m)) + (w.lo % m)) % m

(***************************************************************************)
(* phf.py                                                                  *)
(***************************************************************************)
Hashes(key, seed) ==
    LET d == digest[key][seed]
    IN [f1 |-> d.low.w0, f2 |-> d.high.w0, g |-> d.low.w1]

displace(f1, f2, d1, d2) ==
    LET a == Mul32(f1, d1)
        b == Add32s(a, d2)
        c == Add32(b, f2)
    IN c

\* a plausible slip: the occupied-slot test is dropped, only the try-stamp is read
RECURSIVE generation_loop_no_occupancy(_, _, _, _, _, _, _, _, _, _)
generation_loop_no_occupancy(bkeys, j, hashes, d1, d2, table_len, try_map, map, generation, values_to_add) ==
    IF j > Len(bkeys)
    THEN [none |-> FALSE, values_to_add |-> values_to_add, try_map |-> try_map]
    ELSE LET key == bkeys[j]
             h == hashes[key + 1]
             idx == ModW(displace(h.f1, h.f2, d1, d2), table_len)
         IN IF try_map[idx + 1] = generation
            THEN [none |-> TRUE, values_to_add |-> <<>>, try_map |-> try_map]
            ELSE generation_loop_no_occupancy(bkeys, j + 1, hashes, d1, d2, table_len,
                                 [try_map EXCEPT ![idx + 1] = generation], map, generation,
                                 Append(values_to_add, <<idx, key>>))

\* the for loop of _try_build_generation from its j-th key on; none = "returned None"
RECURSIVE generation_loop(_, _, _, _, _, _, _, _, _, _)
generation_loop(bkeys, j, hashes, d1, d2, table_len, try_map, map, generation, values_to_add) ==
    IF j > Len(bkeys)
    THEN [none |-> FALSE, values_to_add |-> values_to_add, try_map |-> try_map]
    ELSE LET key == bkeys[j]
             h == hashes[key + 1]
             idx == ModW(displace(h.f1, h.f2, d1, d2), table_len)
         IN IF map[idx + 1] # None \/ try_map[idx + 1] = generation
            THEN [none |-> TRUE, values_to_add |-> <<>>, try_map |-> try_map]
            ELSE generation_loop(bkeys, j + 1, hashes, d1, d2, table_len,
                                 [try_map EXCEPT ![idx + 1] = generation], map, generation,
                                 Append(values_to_add, <<idx, key>>))

try_build_generation(bucket, hashes, d1, d2, table_len, try_map, map, generation) ==
    generation_loop(bucket.keys, 1, hashes, d1, d2, table_len, try_map, map, generation, <<>>)

\* buckets.sort(key=len(bucket.keys), reverse=True): stable, largest first
RECURSIVE sort_buckets(_, _)
sort_buckets(buckets, size) ==
    IF size < 0 THEN <<>>
    ELSE SelectSeq(buckets, LAMBDA b : Len(b.keys) = size) \o sort_buckets(buckets, size - 1)

\* map[idx] = key for every (idx, key) of values_to_add
RECURSIVE commit_values(_, _, _)
commit_values(map, values_to_add, j) ==
    IF j > Len(values_to_add) THEN map
    ELSE commit_values([map EXCEPT ![values_to_add[j][1] + 1] = values_to_add[j][2]],
                       values_to_add, j + 1)

\* try_build_hash_state up to the first pass of its loops
build_start(keys, seed) ==
    LET table_len == Len(keys)
        buckets_len == (table_len + Lambda - 1) \div Lambda
        hashes == [i \in 1..table_len |-> Hashes(keys[i], seed)]
        indices == [i \in 1..table_len |-> i - 1]
        buckets == [b \in 1..buckets_len |->
                      [index |-> b - 1,
                       keys |-> SelectSeq(indices,
                                  LAMBDA i : ModW(hashes[i + 1].g, buckets_len) = b - 1)]]
    IN [seed |-> seed,
        table_len |-> table_len,
        hashes |-> hashes,
        buckets |-> sort_buckets(buckets, table_len),
        bpos |-> 1,
        d1 |-> 0,
        d2 |-> 0,
        generation |-> 0,
        try_map |-> [i \in 1..table_len |-> 0],
        map |-> [i \in 1..table_len |-> None],
        disps |-> [b \in 1..buckets_len |-> NoDisp],
        values_to_add |-> <<>>,
        status |-> IF buckets_len = 0 THEN "ok" ELSE "run"]

\* one pass of the innermost loop of try_build_hash_state: one (d1, d2) tried for
\* the current bucket, then the loop control up to the next attempt or the return
build_step(b) ==
    LET bucket == b.buckets[b.bpos]
        generation == b.generation + 1
        r == try_build_generation(bucket, b.hashes, b.d1, b.d2, b.table_len,
                                  b.try_map, b.map, generation)
        range == Min(64 * 1024 - 1, b.table_len)
    IN IF ~r.none
       THEN [b EXCEPT !.generation = generation,
                      !.try_map = r.try_map,
                      !.disps = [b.disps EXCEPT ![bucket.index + 1] = <<b.d1, b.d2>>],
                      !.map = commit_values(b.map, r.values_to_add, 1),
                      !.values_to_add = r.values_to_add,
                      !.bpos = b.bpos + 1,
                      !.d1 = 0,
                      !.d2 = 0,
                      !.status = IF b.bpos = Len(b.buckets) THEN "ok" ELSE "run"]
       ELSE [b EXCEPT !.generation = generation,
                      !.try_map = r.try_map,
                      !.values_to_add = <<>>,
                      !.d1 = IF b.d2 + 1 < range THEN b.d1 ELSE b.d1 + 1,
                      !.d2 = IF b.d2 + 1 < range THEN b.d2 + 1 ELSE 0,
                      !.status = IF b.d2 + 1 < range \/ b.d1 + 1 < range
                                 THEN "run" ELSE "fail"]

RECURSIVE build_run(_)
build_run(b) == IF b.status = "run" THEN build_run(build_step(b)) ELSE b

\* the value try_build_hash_state returns from the final locals
hash_state_of(b) ==
    IF b.status = "ok"
    THEN [none |-> FALSE, seed |-> b.seed, disps |-> b.disps,
          hash_output_to_original_index |-> b.map]
    ELSE [none |-> TRUE]

try_build_hash_state(keys, seed) == hash_state_of(build_run(build_start(keys, seed)))

\* d is the dict as its list of (key, value) pairs in insertion order
dict_keys(d) == [i \in 1..Len(d) |-> d[i][1]]

\* a plausible slip: key_values left in insertion order instead of slot order
map_of_state_insertion_order(d, hash_state) ==
    IF hash_state.none THEN [none |-> TRUE]
    ELSE [none |-> FALSE,
          seed |-> hash_state.seed,
          disps |-> hash_state.disps,
          key_values |-> d]

\* try_build_map after try_build_hash_state has returned
map_of_state(d, hash_state) ==
    IF hash_state.none THEN [none |-> TRUE]
    ELSE [none |-> FALSE,
          seed |-> hash_state.seed,
          disps |-> hash_state.disps,
          key_values |-> [s \in 1..Len(hash_state.hash_output_to_original_index) |->
                            d[hash_state.hash_output_to_original_index[s] + 1]]]

try_build_map(d, seed) == map_of_state(d, try_build_hash_state(dict_keys(d), seed))

\* the outcome of a lookup: a returned value or a raised exception
Returned(v) == [raised |-> "", value |-> v]
Raised(e) == [raised |-> e, value |-> None]

map_get(hash_map, key) ==
    IF Len(hash_map.disps) = 0 THEN Raised("ZeroDivisionError")
    ELSE LET hashes == Hashes(key, hash_map.seed)
             bucket == hash_map.disps[ModW(hashes.g, Len(hash_map.disps)) + 1]
             idx == ModW(displace(hashes.f1, hashes.f2, bucket[1], bucket[2]),
                         Len(hash_map.key_values))
         IN IF hash_map.key_values[idx + 1][1] # key
            THEN Returned(None)
            ELSE Returned(hash_map.key_values[idx + 1][2])

contains_key(hash_state, keys, key) ==
    IF Len(hash_state.disps) = 0 THEN Raised("ZeroDivisionError")
    ELSE LET hashes == Hashes(key, hash_state.seed)
             bucket == hash_state.disps[ModW(hashes.g, Len(hash_state.disps)) + 1]
             idx == ModW(displace(hashes.f1, hashes.f2, bucket[1], bucket[2]), Len(keys))
         IN Returned(keys[hash_state.hash_output_to_original_index[idx + 1] + 1] = key)

(***************************************************************************)
(* Python values.  A str is its sequence of code points, bytes a sequence  *)
(* of 0..255, an int [neg, mag] with mag nine base-256 digits (least       *)
(* significant first), a dict its (key, value) pairs in insertion order.   *)
(***************************************************************************)
NoneV == [t |-> "null"]
BoolV(b) == [t |-> "bool", bool |-> b]
IntV(neg, mag) == [t |-> "int", neg |-> neg, mag |-> mag]
StrV(s) == [t |-> "str", str |-> s]
BytesV(b) == [t |-> "bytes", raw |-> b]
ListV(items) == [t |-> "list", items |-> items]
DictV(kv) == [t |-> "dict", kv |-> kv]
FloatV == [t |-> "float"]

\* the outcome of encode: the bytes returned or the exception raised
OkBytes(b) == [ok |-> TRUE, err |-> "", bytes |-> b]
Err(e) == [ok |-> FALSE, err |-> e, bytes |-> <<>>]

\* b''.join(parts)
RECURSIVE join(_)
join(parts) == IF parts = <<>> THEN <<>> ELSE Head(parts) \o join(Tail(parts))

(***************************************************************************)
(* Integers of any magnitude and struct.pack of them.                      *)
(***************************************************************************)
Digits == 9

\* the magnitude of a small natural number
RECURSIVE MagOf(_, _)
MagOf(n, len) == IF len = 0 THEN <<>> ELSE <<n % 256>> \o MagOf(n \div 256, len - 1)

Small(n) == IF n < 0 THEN IntV(TRUE, MagOf(-n, Digits)) ELSE IntV(FALSE, MagOf(n, Digits))

\* 2^(8 * k) - 1 and 2^(8 * k - 1)
Ones(k) == [i \in 1..Digits |-> IF i <= k THEN 255 ELSE 0]
TopBit(k) == [i \in 1..Digits |-> IF i = k THEN 128 ELSE 0]
PredMag(m) ==
    LET z == CHOOSE i \in 1..Digits : m[i] # 0 /\ \A j \in 1..(i - 1) : m[j] = 0
    IN [i \in 1..Digits |-> IF i < z THEN 255 ELSE IF i = z THEN m[i] - 1 ELSE m[i]]
SuccMag(m) ==
    LET z == CHOOSE i \in 1..Digits : m[i] # 255 /\ \A j \in 1..(i - 1) : m[j] = 255
    IN [i \in 1..Digits |-> IF i < z THEN 0 ELSE IF i = z THEN m[i] + 1 ELSE m[i]]

MagLess(a, b) ==
    \E i \in 1..Digits : a[i] < b[i] /\ \A j \in (i + 1)..Digits : a[j] = b[j]

\* a < b
IntLess(a, b) ==
    IF a.neg # b.neg THEN a.neg
    ELSE IF a.neg THEN MagLess(b.mag, a.mag) ELSE MagLess(a.mag, b.mag)

\* the low w bytes of the two's complement of a negative number of magnitude mag
RECURSIVE TwosComplement(_, _, _, _)
TwosComplement(mag, w, i, carry) ==
    IF i > w THEN <<>>
    ELSE LET d == 255 - mag[i] + carry
         IN <<d % 256>> \o TwosComplement(mag, w, i + 1, d \div 256)

\* a plausible slip: the magnitude packed, the sign dropped
pack_int_magnitude(fmt, v) ==
    LET w == IF fmt \in {"I", "i"} THEN 4 ELSE 8
        signed == fmt \in {"i", "q"}
        low == IF signed THEN IntV(TRUE, TopBit(w)) ELSE IntV(FALSE, Ones(0))
        high == IF signed THEN IntV(FALSE, PredMag(TopBit(w))) ELSE IntV(FALSE, Ones(w))
    IN IF IntLess(v, low) \/ IntLess(high, v) THEN Err("struct.error")
       ELSE OkBytes(SubSeq(v.mag, 1, w))

\* struct.pack of one integer in little-endian format fmt: "I", "i", "Q" or "q"
pack_int(fmt, v) ==
    LET w == IF fmt \in {"I", "i"} THEN 4 ELSE 8
        signed == fmt \in {"i", "q"}
        low == IF signed THEN IntV(TRUE, TopBit(w)) ELSE IntV(FALSE, Ones(0))
        high == IF signed THEN IntV(FALSE, PredMag(TopBit(w))) ELSE IntV(FALSE, Ones(w))
    IN IF IntLess(v, low) \/ IntLess(high, v) THEN Err("struct.error")
       ELSE IF v.neg THEN OkBytes(TwosComplement(v.mag, w, 1, 1))
       ELSE OkBytes(SubSeq(v.mag, 1, w))

(***************************************************************************)
(* u32 fields of headers and descriptors, as [hi8, lo24].                  *)
(***************************************************************************)
U32(n) == [hi8 |-> n \div 16777216, lo24 |-> n % 16777216]

\* a | b on natural numbers
RECURSIVE BitOr(_, _)
BitOr(a, b) ==
    IF a = 0 THEN b
    ELSE IF b = 0 THEN a
    ELSE (IF a % 2 = 1 \/ b % 2 = 1 THEN 1 ELSE 0) + 2 * BitOr(a \div 2, b \div 2)

\* struct.pack('<I', u): refused when u does not fit 32 bits
pack_u32(u) ==
    IF u.hi8 > 255 THEN Err("struct.error")
    ELSE OkBytes(<<u.lo24 % 256, (u.lo24 \div 256) % 256, u.lo24 \div 65536, u.hi8>>)

\* struct.pack('<I', n) of a number known to fit
u32_bytes(n) == pack_u32(U32(n)).bytes

(***************************************************************************)
(* str.encode('utf-8')                                                     *)
(***************************************************************************)
utf8_char(cp) ==
    IF cp < 128 THEN <<cp>>
    ELSE IF cp < 2048 THEN <<192 + (cp \div 64), 128 + (cp % 64)>>
    ELSE IF cp < 65536
         THEN <<224 + (cp \div 4096), 128 + ((cp \div 64) % 64), 128 + (cp % 64)>>
    ELSE <<240 + (cp \div 262144), 128 + ((cp \div 4096) % 64),
           128 + ((cp \div 64) % 64), 128 + (cp % 64)>>

utf8_encode(s) == join([i \in 1..Len(s) |-> utf8_char(s[i])])

\* a < b for two str: by code point, a proper prefix first
StrLess(a, b) ==
    \E i \in 1..Len(b) :
        /\ \A j \in 1..(i - 1) : j <= Len(a) /\ a[j] = b[j]
        /\ (i = Len(a) + 1 \/ (i <= Len(a) /\ a[i] < b[i]))

(***************************************************************************)
(* sbson_refimpl.py: the encoder                                           *)
(***************************************************************************)
ElementType ==
    [DOUBLE |-> 1, STRING |-> 2, MAP |-> 3, ARRAY |-> 4, BINARY |-> 5,
     FALSE |-> 8, TRUE |-> 9, NONE |-> 10,
     INT32 |-> 16, UINT32 |-> 17, INT64 |-> 18, UINT64 |-> 19, MAP_PHF_CHD |-> 32]

PHF_THRESHOLD == 10000

\* kvs.sort() on a list of distinct str
list_sort(kvs) ==
    LET elems == {kvs[i] : i \in 1..Len(kvs)}
    IN [r \in 1..Len(kvs) |->
          CHOOSE k \in elems : Cardinality({x \in elems : StrLess(x, k)}) = r - 1]

\* a plausible slip: the node filled before its left subtree is walked
RECURSIVE eytzinger_inner_preorder(_, _, _)
eytzinger_inner_preorder(k, kvs, st) ==
    IF k <= Len(kvs)
    THEN LET here == [i |-> st.i + 1,
                      new_arr |-> [st.new_arr EXCEPT ![k] = kvs[st.i + 1]]]
             left == eytzinger_inner_preorder(2 * k, kvs, here)
         IN eytzinger_inner_preorder(2 * k + 1, kvs, left)
    ELSE st

\* _inner(k) of _sort_eytzinger on st = [i, new_arr]
RECURSIVE eytzinger_inner(_, _, _)
eytzinger_inner(k, kvs, st) ==
    IF k <= Len(kvs)
    THEN LET left == eytzinger_inner(2 * k, kvs, st)
             here == [i |-> left.i + 1,
                      new_arr |-> [left.new_arr EXCEPT ![k] = kvs[left.i + 1]]]
         IN eytzinger_inner(2 * k + 1, kvs, here)
    ELSE st

\* a plausible slip: kvs.sort() left out
sort_eytzinger_unsorted(kvs) ==
    eytzinger_inner(1, kvs, [i |-> 0, new_arr |-> [j \in 1..Len(kvs) |-> <<>>]]).new_arr

sort_eytzinger(kvs) ==
    LET sorted == list_sort(kvs)
    IN eytzinger_inner(1, sorted, [i |-> 0, new_arr |-> [j \in 1..Len(kvs) |-> <<>>]]).new_arr

\* the body of the descriptor loop of encode_map and _encode_map_chd for one
\* (name, value): name_len = len(name), the terminator included
descriptor_step(keys_offset, values_offset, name_len, value_len) ==
    LET key_data == [hi8 |-> BitOr(keys_offset \div 16777216, name_len - 1),
                     lo24 |-> keys_offset % 16777216]
        k == pack_u32(key_data)
        v == pack_u32(U32(values_offset))
    IN [ok |-> k.ok /\ v.ok,
        bytes |-> k.bytes \o v.bytes,
        keys_offset |-> keys_offset + name_len,
        values_offset |-> values_offset + value_len]

\* the descriptor loop from its j-th (name, value) on
RECURSIVE descriptor_loop(_, _, _, _, _)
descriptor_loop(field_names, field_values, j, keys_offset, values_offset) ==
    IF j > Len(field_names) THEN OkBytes(<<>>)
    ELSE LET step == descriptor_step(keys_offset, values_offset,
                                     Len(field_names[j]), Len(field_values[j]))
             rest == descriptor_loop(field_names, field_values, j + 1,
                                     step.keys_offset, step.values_offset)
         IN IF ~step.ok THEN Err("struct.error")
            ELSE IF ~rest.ok THEN rest
            ELSE OkBytes(step.bytes \o rest.bytes)

\* a plausible slip: the offset advanced by one per value, not by len(value)
RECURSIVE array_offsets_by_index(_, _, _)
array_offsets_by_index(values, j, offset) ==
    IF j > Len(values) THEN <<>>
    ELSE u32_bytes(offset) \o array_offsets_by_index(values, j + 1, offset + 1)

\* the offsets loop of encode_array from its j-th value on
RECURSIVE array_offsets(_, _, _)
array_offsets(values, j, offset) ==
    IF j > Len(values) THEN <<>>
    ELSE u32_bytes(offset) \o array_offsets(values, j + 1, offset + Len(values[j]))

\* the first exception among a list of encode outcomes, "" if none
first_error(outs) ==
    IF \A i \in 1..Len(outs) : outs[i].ok THEN ""
    ELSE outs[CHOOSE i \in 1..Len(outs) :
                ~outs[i].ok /\ \A j \in 1..(i - 1) : outs[j].ok].err

dict_get(kv, key) == kv[CHOOSE i \in 1..Len(kv) : kv[i][1] = key][2]

RECURSIVE encode(_, _)
RECURSIVE encode_map(_, _)
RECURSIVE encode_map_chd(_, _)
RECURSIVE encode_array(_, _)

encode_int(obj) ==
    IF IntLess(IntV(FALSE, PredMag(TopBit(8))), obj)
    THEN LET p == pack_int("Q", obj)
         IN IF p.ok THEN OkBytes(<<ElementType.UINT64>> \o p.bytes) ELSE p
    ELSE IF IntLess(IntV(FALSE, Ones(4)), obj)
    THEN LET p == pack_int("I", obj)
         IN IF p.ok THEN OkBytes(<<ElementType.UINT32>> \o p.bytes) ELSE p
    ELSE IF IntLess(obj, IntV(TRUE, Ones(4)))
    THEN LET p == pack_int("i", obj)
         IN IF p.ok THEN OkBytes(<<ElementType.INT32>> \o p.bytes) ELSE p
    ELSE LET p == pack_int("q", obj)
         IN IF p.ok THEN OkBytes(<<ElementType.INT64>> \o p.bytes) ELSE p

encode(obj, options) ==
    CASE obj.t = "dict" -> encode_map(obj.kv, options)
      [] obj.t = "str" -> OkBytes(<<ElementType.STRING>> \o utf8_encode(obj.str) \o <<0>>)
      [] obj.t = "bytes" -> OkBytes(<<ElementType.BINARY>> \o obj.raw)
      [] obj.t = "bool" ->
            IF obj.bool THEN OkBytes(<<ElementType.TRUE>>) ELSE OkBytes(<<ElementType.FALSE>>)
      [] obj.t = "int" -> encode_int(obj)
      [] obj.t = "null" -> OkBytes(<<ElementType.NONE>>)
      [] obj.t = "list" -> encode_array(obj.items, options)
      [] OTHER -> Err("TypeError")

encode_map_chd(obj, options) ==
    LET map == try_build_map(obj, FirstSeed)
    IN IF map.none THEN Err("AttributeError")
       ELSE
       LET outs == [i \in 1..Len(map.key_values) |-> encode(map.key_values[i][2], options)]
           field_values == [i \in 1..Len(outs) |-> outs[i].bytes]
           field_names == [i \in 1..Len(map.key_values) |->
                             utf8_encode(map.key_values[i][1]) \o <<0>>]
           keys == join(field_names)
           values == join(field_values)
           header == <<ElementType.MAP_PHF_CHD>> \o u32_bytes(Len(obj)) \o u32_bytes(map.seed)
                     \o join([b \in 1..Len(map.disps) |->
                                u32_bytes(map.disps[b][1]) \o u32_bytes(map.disps[b][2])])
           descriptors_len == Len(obj) * 8
           keys_offset == Len(header) + descriptors_len
           values_offset == keys_offset + Len(keys)
           descriptors == descriptor_loop(field_names, field_values, 1,
                                          keys_offset, values_offset)
       IN IF first_error(outs) # "" THEN Err(first_error(outs))
          ELSE IF ~descriptors.ok THEN descriptors
          ELSE OkBytes(header \o descriptors.bytes \o keys \o values)

\* a plausible slip: the threshold compared with > instead of >=
encode_map_above_threshold(obj, options) ==
    IF \E i \in 1..Len(obj) : \E j \in 1..Len(obj[i][1]) : obj[i][1][j] = 0
    THEN Err("AssertionError")
    ELSE IF Len(obj) > options.phf_threshold THEN encode_map_chd(obj, options)
    ELSE
    LET sorted_names == sort_eytzinger(dict_keys(obj))
        outs == [i \in 1..Len(sorted_names) |-> encode(dict_get(obj, sorted_names[i]), options)]
        field_values == [i \in 1..Len(outs) |-> outs[i].bytes]
        field_names == [i \in 1..Len(sorted_names) |-> utf8_encode(sorted_names[i]) \o <<0>>]
        header_size == 1 + 4 + (8 * Len(field_names))
        descriptors == descriptor_loop(field_names, field_values, 1,
                                       header_size, header_size + Len(join(field_names)))
    IN IF first_error(outs) # "" THEN Err(first_error(outs))
       ELSE OkBytes(<<ElementType.MAP>> \o u32_bytes(Len(field_names))
                    \o descriptors.bytes \o join(field_names) \o join(field_values))

encode_map(obj, options) ==
    IF \E i \in 1..Len(obj) : \E j \in 1..Len(obj[i][1]) : obj[i][1][j] = 0
    THEN Err("AssertionError")
    ELSE IF Len(obj) >= options.phf_threshold THEN encode_map_chd(obj, options)
    ELSE
    LET element_type == ElementType.MAP
        sorted_names == sort_eytzinger(dict_keys(obj))
        outs == [i \in 1..Len(sorted_names) |-> encode(dict_get(obj, sorted_names[i]), options)]
        field_values == [i \in 1..Len(outs) |-> outs[i].bytes]
        field_names == [i \in 1..Len(sorted_names) |-> utf8_encode(sorted_names[i]) \o <<0>>]
        keys == join(field_names)
        values == join(field_values)
        header_size == 1 + 4 + (8 * Len(field_names))
        descriptors == descriptor_loop(field_names, field_values, 1,
                                       header_size, header_size + Len(keys))
    IN IF first_error(outs) # "" THEN Err(first_error(outs))
       ELSE IF ~descriptors.ok THEN descriptors
       ELSE OkBytes(<<element_type>> \o u32_bytes(Len(field_names))
                    \o descriptors.bytes \o keys \o values)

encode_array(itr, options) ==
    LET outs == [i \in 1..Len(itr) |-> encode(itr[i], options)]
        values == [i \in 1..Len(outs) |-> outs[i].bytes]
        count == Len(values)
        header_size == 1 + 4 + (4 * count)
        descriptors == array_offsets(values, 1, header_size)
        payload == join(values)
    IN IF first_error(outs) # "" THEN Err(first_error(outs))
       ELSE OkBytes(<<ElementType.ARRAY>> \o u32_bytes(Len(values)) \o descriptors \o payload)

(***************************************************************************)
(* sbson_refimpl.py: the decoder.  A memoryview is the sequence of bytes   *)
(* it spans; an exception is the value [t |-> "error"].                    *)
(***************************************************************************)
DecErr(e) == [t |-> "error", e |-> e]

\* a plausible slip: the slice taken without clamping, as raw pointer arithmetic
\* would; what lies past the end of the buffer reads as -1
slice_unclamped(view, a, b) ==
    [i \in 1..(IF b > a THEN Min(b - a, 2 * Len(view)) ELSE 0) |->
        IF a + i <= Len(view) THEN view[a + i] ELSE -1]

\* view[a:b] for 0 <= a, b: a slice is clamped to the view, it never fails
slice(view, a, b) == SubSeq(view, Min(a, Len(view)) + 1, Min(b, Len(view)))

\* the u32 at byte offset off of view
u32_at(view, off) ==
    [hi8 |-> view[off + 4],
     lo24 |-> view[off + 1] + 256 * view[off + 2] + 65536 * view[off + 3]]

\* a u32 used as a count or an offset.  No buffer of the model is as long as
\* 2^24 bytes, and counts and offsets are only compared with buffer lengths, so
\* every value from 2^24 on stands for itself as 2^24.
as_int(u) == IF u.hi8 > 0 THEN 16777216 ELSE u.lo24

\* struct.unpack_from(f"<{count}I", view, offset) can be done
can_unpack(view, offset, count) == offset <= Len(view) /\ Len(view) - offset >= 4 * count

\* str(view, 'utf-8') from byte i on: [ok, str]
RECURSIVE utf8_decode(_, _)
utf8_decode(b, i) ==
    IF i > Len(b) THEN [ok |-> TRUE, str |-> <<>>]
    ELSE
    LET c == b[i]
        n == IF c < 128 THEN 1
             ELSE IF c >= 194 /\ c <= 223 THEN 2
             ELSE IF c >= 224 /\ c <= 239 THEN 3
             ELSE IF c >= 240 /\ c <= 244 THEN 4
             ELSE 0
        cont(j) == j <= Len(b) /\ b[j] >= 128 /\ b[j] <= 191
        second_ok ==
            CASE c = 224 -> b[i + 1] >= 160
              [] c = 237 -> b[i + 1] <= 159
              [] c = 240 -> b[i + 1] >= 144
              [] c = 244 -> b[i + 1] <= 143
              [] OTHER -> TRUE
        valid == /\ n > 0
                 /\ \A j \in (i + 1)..(i + n - 1) : cont(j)
                 /\ n > 1 => second_ok
        cp == CASE n = 1 -> c
                [] n = 2 -> (c - 192) * 64 + (b[i + 1] - 128)
                [] n = 3 -> (c - 224) * 4096 + (b[i + 1] - 128) * 64 + (b[i + 2] - 128)
                [] OTHER -> (c - 240) * 262144 + (b[i + 1] - 128) * 4096
                            + (b[i + 2] - 128) * 64 + (b[i + 3] - 128)
    IN IF ~valid THEN [ok |-> FALSE, str |-> <<>>]
       ELSE LET rest == utf8_decode(b, i + n)
            IN IF rest.ok THEN [ok |-> TRUE, str |-> <<cp>> \o rest.str] ELSE rest

\* s.rstrip('\x00') and s.strip('\0')
RECURSIVE rstrip_nul(_)
rstrip_nul(s) ==
    IF Len(s) > 0 /\ s[Len(s)] = 0 THEN rstrip_nul(SubSeq(s, 1, Len(s) - 1)) ELSE s

RECURSIVE lstrip_nul(_)
lstrip_nul(s) == IF Len(s) > 0 /\ s[1] = 0 THEN lstrip_nul(Tail(s)) ELSE s

strip_nul(s) == lstrip_nul(rstrip_nul(s))

\* output[key] = value on a dict
dict_set(kv, key, value) ==
    IF \E i \in 1..Len(kv) : kv[i][1] = key
    THEN [i \in 1..Len(kv) |-> IF kv[i][1] = key THEN <<key, value>> ELSE kv[i]]
    ELSE Append(kv, <<key, value>>)

\* view[key_offset:key_offset + key_length + 1] of one descriptor
name_view(view, keys_data) ==
    LET key_offset == keys_data.lo24
        key_length == keys_data.hi8
    IN slice(view, key_offset, key_offset + key_length + 1)

\* the name of one descriptor, as decode_map and decode_map_chd read it
field_name(view, keys_data) ==
    LET name == name_view(view, keys_data)
        text == utf8_decode(name, 1)
    IN IF Len(name) = 0 THEN DecErr("IndexError")
       ELSE IF name[Len(name)] # 0 THEN DecErr("ValueError")
       ELSE IF ~text.ok THEN DecErr("UnicodeDecodeError")
       ELSE StrV(strip_nul(text.str))

\* the first exception among decode outcomes, in order
first_raised(outs) ==
    outs[CHOOSE i \in 1..Len(outs) :
           outs[i].t = "error" /\ \A j \in 1..(i - 1) : outs[j].t # "error"]

any_raised(outs) == \E i \in 1..Len(outs) : outs[i].t = "error"

\* output[a_name] = o for every decoded field, in order
RECURSIVE fill_dict(_, _, _, _)
fill_dict(names, outs, j, output) ==
    IF j > Len(names) THEN output
    ELSE fill_dict(names, outs, j + 1, dict_set(output, names[j].str, outs[j]))

RECURSIVE decode(_, _)
RECURSIVE decode_array(_, _)
RECURSIVE decode_map(_, _)
RECURSIVE decode_map_chd(_, _)

\* v = view[a_offset:b_offset] of every field of a map, the last one up to
\* len(view)
field_views(view, item_count, descriptor_offset) ==
    LET starts == [idx \in 1..item_count |->
                    as_int(u32_at(view, descriptor_offset + 8 * (idx - 1) + 4))]
        ends == [idx \in 1..item_count |->
                    IF idx < item_count THEN starts[idx + 1] ELSE Len(view)]
    IN [idx \in 1..item_count |-> slice(view, starts[idx], ends[idx])]

\* the two loops decode_map and decode_map_chd share: the names of all the
\* descriptors first, then each value's range decoded, up to the next value_offset
decode_fields(view, item_count, descriptor_offset, depth) ==
    LET names == [idx \in 1..item_count |->
                    field_name(view, u32_at(view, descriptor_offset + 8 * (idx - 1)))]
        views == field_views(view, item_count, descriptor_offset)
    IN IF any_raised(names) THEN first_raised(names)
       ELSE LET outs == [idx \in 1..item_count |-> decode(views[idx], depth - 1)]
            IN IF any_raised(outs) THEN first_raised(outs)
               ELSE DictV(fill_dict(names, outs, 1, <<>>))

decode_map_chd(view, depth) ==
    IF Len(view) < 9 THEN DecErr("struct.error")
    ELSE LET item_count == as_int(u32_at(view, 1))
             bucket_count == (item_count + Lambda - 1) \div Lambda
             descriptor_offset == 9 + 8 * bucket_count
         IN IF ~can_unpack(view, descriptor_offset, 2 * item_count)
            THEN DecErr("struct.error")
            ELSE decode_fields(view, item_count, descriptor_offset, depth)

decode_map(view, depth) ==
    IF Len(view) < 5 THEN DecErr("struct.error")
    ELSE LET item_count == as_int(u32_at(view, 1))
         IN IF item_count = 0 THEN DictV(<<>>)
            ELSE IF ~can_unpack(slice(view, 5, Len(view)), 0, 2 * item_count)
            THEN DecErr("struct.error")
            ELSE decode_fields(view, item_count, 5, depth)

\* v = view[a_offset:b_offset] of every item of an array, the last one
\* view[last_item_offset:]
item_views(view, item_count) ==
    LET item_offsets == [i \in 1..item_count |-> as_int(u32_at(view, 5 + 4 * (i - 1)))]
        ends == [i \in 1..item_count |->
                   IF i < item_count THEN item_offsets[i + 1] ELSE Len(view)]
    IN [i \in 1..item_count |-> slice(view, item_offsets[i], ends[i])]

decode_array(view, depth) ==
    IF Len(view) < 5 THEN DecErr("struct.error")
    ELSE LET item_count == as_int(u32_at(view, 1))
         IN IF item_count = 0 THEN ListV(<<>>)
            ELSE IF ~can_unpack(slice(view, 5, Len(view)), 0, item_count)
            THEN DecErr("struct.error")
            ELSE
            LET views == item_views(view, item_count)
                items == [i \in 1..item_count |-> decode(views[i], depth - 1)]
            IN IF any_raised(items) THEN first_raised(items) ELSE ListV(items)

\* depth is what is left of the interpreter's recursion limit
decode(view, depth) ==
    IF depth <= 0 THEN DecErr("RecursionError")
    ELSE IF Len(view) = 0 THEN DecErr("IndexError")
    ELSE
    LET element_type == view[1]
    IN CASE element_type = ElementType.FALSE -> BoolV(FALSE)
         [] element_type = ElementType.TRUE -> BoolV(TRUE)
         [] element_type = ElementType.NONE -> NoneV
         [] element_type = ElementType.INT32 ->
               IF Len(view) < 5 THEN DecErr("struct.error")
               ELSE IntV(FALSE, [i \in 1..Digits |-> IF i <= 4 THEN view[i + 1] ELSE 0])
         [] element_type = ElementType.INT64 ->
               IF Len(view) < 9 THEN DecErr("struct.error")
               ELSE IntV(FALSE, [i \in 1..Digits |-> IF i <= 8 THEN view[i + 1] ELSE 0])
         [] element_type = ElementType.STRING ->
               LET text == utf8_decode(slice(view, 1, Len(view)), 1)
               IN IF text.ok THEN StrV(rstrip_nul(text.str)) ELSE DecErr("UnicodeDecodeError")
         [] element_type = ElementType.ARRAY -> decode_array(view, depth)
         [] element_type = ElementType.MAP -> decode_map(view, depth)
         [] element_type = ElementType.MAP_PHF_CHD -> decode_map_chd(view, depth)
         [] element_type = ElementType.BINARY -> BytesV(slice(view, 1, Len(view)))
         [] OTHER -> DecErr("ValueError")

(***************************************************************************)
(* The CHD builder on its own: phf.main builds a map of keys a0, a1, ...   *)
(* from seed 0x500 and looks stored and never-stored keys up.              *)
(***************************************************************************)
Key(i) == <<97, 48 + i>>

WMax == W32(65535, 65535)

\* the digests the model draws from for key a<i>
DigestChoice(i, c) ==
    CASE c = 1 -> [low |-> [w1 |-> W32(0, 0), w0 |-> W32(0, 0)],
                   high |-> [w1 |-> W32(0, 0), w0 |-> W32(0, i)]]
      [] c = 2 -> [low |-> [w1 |-> W32(0, 1), w0 |-> W32(0, i)],
                   high |-> [w1 |-> W32(0, 7), w0 |-> W32(0, 3)]]
      [] OTHER -> [low |-> [w1 |-> WMax, w0 |-> WMax],
                   high |-> [w1 |-> WMax, w0 |-> W32(65535, 65535 - i)]]

Idle == [status |-> "idle"]
NoMap == [none |-> TRUE]
NoResult == Raised("")
NoBytes == [ok |-> FALSE, err |-> "", bytes |-> <<>>]
NoDecode == [t |-> "none"]

InitChd ==
    /\ \E n \in 0..MaxKeys :
         /\ tree = [i \in 1..n |-> <<Key(i - 1), 100 + i>>]
         /\ \E sel \in [0..n -> 1..3] :
              digest = [k \in {Key(i) : i \in 0..n} |->
                          [s \in {FirstSeed} |-> DigestChoice(k[2] - 48, sel[k[2] - 48])]]
    /\ thr = 0
    /\ pc = "init"
    /\ tree2 = NoneV
    /\ enc = NoBytes /\ enc2 = NoBytes /\ doc = <<>> /\ dec = NoDecode
    /\ bs = Idle /\ hm = NoMap /\ qkey = <<>> /\ res = NoResult /\ dl = Idle

\* try_build_hash_state, lines 78-91: hashes, buckets, the empty tables
ChdStart ==
    /\ pc = "init"
    /\ bs' = build_start(dict_keys(tree), FirstSeed)
    /\ pc' = "building"
    /\ UNCHANGED <<tree, tree2, thr, digest, enc, enc2, doc, dec, hm, qkey, res, dl>>

\* try_build_hash_state, lines 93-115: one (d1, d2) tried for the current bucket
ChdAttempt ==
    /\ pc = "building"
    /\ bs.status = "run"
    /\ bs' = build_step(bs)
    /\ UNCHANGED <<tree, tree2, thr, digest, pc, enc, enc2, doc, dec, hm, qkey, res, dl>>

\* the return of try_build_hash_state and the rest of try_build_map
ChdFinish ==
    /\ pc = "building"
    /\ bs.status \in {"ok", "fail"}
    /\ hm' = map_of_state(tree, hash_state_of(bs))
    /\ pc' = "built"
    /\ UNCHANGED <<tree, tree2, thr, digest, enc, enc2, doc, dec, bs, qkey, res, dl>>

\* map_get(m, key) for a stored key or the never-stored one
ChdMapGet ==
    /\ pc = "built"
    /\ ~hm.none
    /\ \E k \in DOMAIN digest :
         /\ qkey' = k
         /\ res' = map_get(hm, k)
    /\ pc' = "got"
    /\ UNCHANGED <<tree, tree2, thr, digest, enc, enc2, doc, dec, bs, hm, dl>>

\* contains_key(hash_state, keys, key) for a stored key or the never-stored one
ChdContains ==
    /\ pc = "built"
    /\ ~hm.none
    /\ \E k \in DOMAIN digest :
         /\ qkey' = k
         /\ res' = contains_key(hash_state_of(bs), dict_keys(tree), k)
    /\ pc' = "contained"
    /\ UNCHANGED <<tree, tree2, thr, digest, enc, enc2, doc, dec, bs, hm, dl>>

NextChd == ChdStart \/ ChdAttempt \/ ChdFinish \/ ChdMapGet \/ ChdContains

SpecChd == InitChd /\ [][NextChd]_vars

(***************************************************************************)
(* The codec: generate_test_vectors encodes an object under some options,  *)
(* decodes the bytes and compares; the same dict may have been built in    *)
(* any insertion order; and a stored document may come back with one byte  *)
(* changed.                                                                *)
(***************************************************************************)
KeyA == <<97>>
KeyE == <<233>>
CodecKeys == {KeyA, KeyE}
Seeds == {FirstSeed, FirstSeed + 1}

\* the digests the model draws from for the codec's keys
CodecDigests == {DigestChoice(0, 1), DigestChoice(1, 2), DigestChoice(1, 3)}

DefaultDigest ==
    [k \in CodecKeys |-> [s \in Seeds |-> IF k = KeyA THEN DigestChoice(0, 1)
                                                      ELSE DigestChoice(1, 2)]]

BoundaryInts ==
    {Small(0), Small(1), Small(-1), Small(255), Small(256),
     IntV(FALSE, PredMag(TopBit(4))), IntV(FALSE, TopBit(4)),
     IntV(FALSE, Ones(4)), IntV(FALSE, SuccMag(Ones(4))),
     IntV(FALSE, PredMag(TopBit(8))), IntV(FALSE, TopBit(8)),
     IntV(FALSE, Ones(8)), IntV(FALSE, SuccMag(Ones(8))),
     IntV(TRUE, TopBit(4)), IntV(TRUE, SuccMag(TopBit(4))),
     IntV(TRUE, Ones(4)), IntV(TRUE, SuccMag(Ones(4))),
     IntV(TRUE, TopBit(8)), IntV(TRUE, SuccMag(TopBit(8)))}

Leaves ==
    {NoneV, BoolV(TRUE), BoolV(FALSE)} \cup BoundaryInts
    \cup {StrV(<<>>), StrV(<<104, 105>>), StrV(<<233, 8364>>), StrV(<<97, 0>>)}
    \cup {BytesV(<<>>), BytesV(<<222, 173>>), BytesV(<<0>>)}

Items == {NoneV, BoolV(TRUE), Small(255), StrV(<<104, 105>>), BytesV(<<222, 173>>)}

Lists ==
    {ListV(<<>>)} \cup {ListV(<<x>>) : x \in Items}
    \cup {ListV(<<x, y>>) : x \in Items, y \in Items}

Dicts ==
    {DictV(<<>>)} \cup {DictV(<< <<k, x>> >>) : k \in CodecKeys, x \in Items}
    \cup {DictV(<< <<k[1], x>>, <<k[2], y>> >>) :
            k \in {<<KeyA, KeyE>>, <<KeyE, KeyA>>}, x \in Items, y \in Items}

Inner ==
    {ListV(<<Small(1), BoolV(TRUE)>>), DictV(<<>>),
     DictV(<< <<KeyE, NoneV>>, <<KeyA, Small(1)>> >>),
     ListV(<< DictV(<< <<KeyA, BoolV(TRUE)>> >>) >>)}

Nested ==
    {DictV(<< <<KeyA, x>> >>) : x \in Inner}
    \cup {DictV(<< <<KeyE, x>>, <<KeyA, y>> >>) : x \in Inner, y \in Inner}
    \cup {ListV(<<x, y>>) : x \in Inner, y \in Inner}

Corpus == Leaves \cup Lists \cup Dicts \cup Nested

Thresholds == {0, 1, 2, PHF_THRESHOLD}

\* the documents that come back with one byte changed
MutationCorpus ==
    {Small(-1), BoolV(TRUE), StrV(<<104, 233>>), BytesV(<<222, 173>>),
     ListV(<<BytesV(<<222, 173>>), Small(1)>>),
     DictV(<< <<KeyA, StrV(<<104, 105>>)>>, <<KeyE, NoneV>> >>),
     DictV(<< <<KeyA, ListV(<<BoolV(FALSE)>>)>> >>)}

EncodeOptions(phf_threshold) == [phf_threshold |-> phf_threshold]

\* some dict of the tree is encoded as a CHD map
RECURSIVE UsesChd(_, _)
UsesChd(obj, threshold) ==
    CASE obj.t = "dict" ->
            \/ Len(obj.kv) >= threshold
            \/ \E i \in 1..Len(obj.kv) : UsesChd(obj.kv[i][2], threshold)
      [] obj.t = "list" -> \E i \in 1..Len(obj.items) : UsesChd(obj.items[i], threshold)
      [] OTHER -> FALSE

\* the same logical tree with its dicts built in any insertion order
RECURSIVE Reorderings(_)
Reorderings(obj) ==
    CASE obj.t = "dict" ->
            LET n == Len(obj.kv)
                subs == [i \in 1..n |-> Reorderings(obj.kv[i][2])]
                all == UNION {subs[i] : i \in 1..n}
            IN {DictV([i \in 1..n |-> <<obj.kv[p[i]][1], f[p[i]]>>]) :
                  p \in Permutations(1..n),
                  f \in {g \in [1..n -> all] : \A i \in 1..n : g[i] \in subs[i]}}
      [] obj.t = "list" ->
            LET n == Len(obj.items)
                subs == [i \in 1..n |-> Reorderings(obj.items[i])]
                all == UNION {subs[i] : i \in 1..n}
            IN {ListV(f) : f \in {g \in [1..n -> all] : \A i \in 1..n : g[i] \in subs[i]}}
      [] OTHER -> {obj}

InitRest ==
    /\ pc = "init"
    /\ tree2 = NoneV
    /\ enc = NoBytes /\ enc2 = NoBytes /\ doc = <<>> /\ dec = NoDecode
    /\ bs = Idle /\ hm = NoMap /\ qkey = <<>> /\ res = NoResult /\ dl = Idle

InitCodec ==
    /\ tree \in Corpus
    /\ thr \in Thresholds
    /\ digest \in IF UsesChd(tree, thr) THEN [CodecKeys -> [Seeds -> CodecDigests]]
                  ELSE {DefaultDigest}
    /\ InitRest

InitMutate ==
    /\ tree \in MutationCorpus
    /\ thr \in {0, PHF_THRESHOLD}
    /\ digest = DefaultDigest
    /\ InitRest

\* sbson = encode(vector, options=options), written out as the document
Encode ==
    /\ pc = "init"
    /\ enc' = encode(tree, EncodeOptions(thr))
    /\ doc' = enc'.bytes
    /\ pc' = "encoded"
    /\ UNCHANGED <<tree, tree2, thr, digest, enc2, dec, bs, hm, qkey, res, dl>>

\* encode of the same logical tree whose dicts were built in another order
EncodeReordered ==
    /\ pc = "encoded"
    /\ \E other \in Reorderings(tree) :
         /\ tree2' = other
         /\ enc2' = encode(other, EncodeOptions(thr))
    /\ pc' = "reencoded"
    /\ UNCHANGED <<tree, thr, digest, enc, doc, dec, bs, hm, qkey, res, dl>>

\* one byte of the stored document is replaced by another value
Mutate ==
    /\ pc = "encoded"
    /\ enc.ok
    /\ \E i \in 1..Len(doc) : \E b \in 0..255 :
         /\ b # doc[i]
         /\ doc' = [doc EXCEPT ![i] = b]
    /\ pc' = "mutated"
    /\ UNCHANGED <<tree, tree2, thr, digest, enc, enc2, dec, bs, hm, qkey, res, dl>>

\* decode(sbson)
Decode ==
    /\ pc \in {"encoded", "mutated"}
    /\ enc.ok
    /\ dec' = decode(doc, RecursionLimit)
    /\ pc' = IF pc = "mutated" THEN "decoded_mutated" ELSE "decoded"
    /\ UNCHANGED <<tree, tree2, thr, digest, enc, enc2, doc, bs, hm, qkey, res, dl>>

NextCodec == Encode \/ Decode \/ EncodeReordered

Spec == InitCodec /\ [][NextCodec]_vars

NextMutate == Encode \/ Mutate \/ Decode

SpecMutate == InitMutate /\ [][NextMutate]_vars

(***************************************************************************)
(* The descriptor loop on its own, for maps too large to write down: only  *)
(* the lengths matter to it.  tree is the shape of the dict: count keys,   *)
(* every name name_len bytes long with its terminator, every encoded value *)
(* value_len bytes long.                                                   *)
(***************************************************************************)
DescCounts == {0, 1, 2, 3, 2097151, 2097152}
DescNameLens == {1, 2, 8, 256, 257}
DescValueLens == {1, 9}

\* how many distinct keys of a given UTF-8 length (terminator included) exist
enough_keys(count, name_len) ==
    CASE name_len = 1 -> count <= 1
      [] name_len = 2 -> count <= 127
      [] OTHER -> TRUE

InitDesc ==
    /\ tree \in {sh \in [count : DescCounts, name_len : DescNameLens,
                         value_len : DescValueLens, chd : BOOLEAN] :
                   enough_keys(sh.count, sh.name_len)}
    /\ thr = IF tree.chd THEN 0 ELSE PHF_THRESHOLD
    /\ digest = DefaultDigest
    /\ InitRest

\* encode_map lines 172-175 and _encode_map_chd lines 116-120: the offsets the
\* loop starts from
DescBegin ==
    /\ pc = "init"
    /\ LET header_size ==
             IF tree.chd
             THEN 1 + 4 + 4 + 8 * ((tree.count + Lambda - 1) \div Lambda) + tree.count * 8
             ELSE 1 + 4 + (8 * tree.count)
       IN dl' = [status |-> "loop", idx |-> 0, ok |-> TRUE, bytes |-> <<>>,
                 key_offset |-> 0,
                 keys_offset |-> header_size,
                 values_offset |-> header_size + tree.count * tree.name_len]
    /\ pc' = "desc"
    /\ UNCHANGED <<tree, tree2, thr, digest, enc, enc2, doc, dec, bs, hm, qkey, res>>

\* one pass of the loop: the descriptor of the next (name, value) is packed
DescNext ==
    /\ pc = "desc"
    /\ dl.ok
    /\ dl.idx < Min(tree.count, MaxDescSteps)
    /\ LET step == descriptor_step(dl.keys_offset, dl.values_offset,
                                   tree.name_len, tree.value_len)
       IN dl' = [status |-> "loop", idx |-> dl.idx + 1, ok |-> step.ok,
                 bytes |-> step.bytes,
                 key_offset |-> dl.keys_offset,
                 keys_offset |-> step.keys_offset,
                 values_offset |-> step.values_offset]
    /\ UNCHANGED <<tree, tree2, thr, digest, pc, enc, enc2, doc, dec, bs, hm, qkey, res>>

NextDesc == DescBegin \/ DescNext

SpecDesc == InitDesc /\ [][NextDesc]_vars

(***************************************************************************)
(* _sort_eytzinger on its own: a list of distinct keys in any order is laid *)
(* out, then the dict of those keys is encoded as an ordered map.          *)
(***************************************************************************)
\* "", "A", "AB", "B", "C", "a", "é"
EytzKeys == {<<>>, <<65>>, <<65, 66>>, <<66>>, <<67>>, <<97>>, <<233>>}

KeyLists ==
    {kvs \in UNION {[1..n -> EytzKeys] : n \in 0..MaxEytzKeys} :
        \A i, j \in 1..Len(kvs) : kvs[i] = kvs[j] => i = j}

InitEytz ==
    /\ tree \in KeyLists
    /\ thr = PHF_THRESHOLD
    /\ digest = DefaultDigest
    /\ InitRest

\* field_names = _sort_eytzinger(list(obj.keys()))
EytzSort ==
    /\ pc = "init"
    /\ res' = Returned(sort_eytzinger(tree))
    /\ pc' = "sorted"
    /\ UNCHANGED <<tree, tree2, thr, digest, enc, enc2, doc, dec, bs, hm, qkey, dl>>

\* encode_map of the dict with these keys, below the threshold
EytzEncode ==
    /\ pc = "sorted"
    /\ enc' = encode(DictV([i \in 1..Len(tree) |-> <<tree[i], NoneV>>]), EncodeOptions(thr))
    /\ pc' = "laid_out"
    /\ UNCHANGED <<tree, tree2, thr, digest, enc2, doc, dec, bs, hm, qkey, res, dl>>

NextEytz == EytzSort \/ EytzEncode

SpecEytz == InitEytz /\ [][NextEytz]_vars

(***************************************************************************)
(* Claims about the CHD builder and its lookups (SpecChd).                 *)
(***************************************************************************)
StoredKeys == {tree[i][1] : i \in 1..Len(tree)}

ValueOf(k) == (CHOOSE i \in 1..Len(tree) : tree[i][1] = k)

\* the one slot the lookup of key k probes in hash map m
ProbedSlot(m, k) ==
    LET h == Hashes(k, m.seed)
        bucket == m.disps[ModW(h.g, Len(m.disps)) + 1]
    IN ModW(displace(h.f1, h.f2, bucket[1], bucket[2]), Len(m.key_values))

\* C2: CHD completeness. Whenever try_build_map returned a HashMap, map_get of a
\* stored key k returns the value the dict associates with k, and the slot
\* displace(f1, f2, d1, d2) mod n of bucket g mod bucket_count is where k sits.
C2_ChdCompleteness ==
    (pc = "got" /\ qkey \in StoredKeys) =>
        /\ res = Returned(tree[ValueOf(qkey)][2])
        /\ hm.key_values[ProbedSlot(hm, qkey) + 1] = tree[ValueOf(qkey)]

\* a stored key of a full two-bucket map, both buckets holding keys, was looked up
C2_Witness ==
    /\ pc = "got"
    /\ qkey \in StoredKeys
    /\ Len(tree) = 6
    /\ \A p \in 1..Len(bs.buckets) : Len(bs.buckets[p].keys) > 0
    /\ bs.generation > 2

\* C3: CHD rejection. For a CHD map of any size, the empty one included, the lookup
\* of a key that is not stored reports absence: map_get returns None and
\* contains_key returns False.
C3_ChdRejection ==
    (pc \in {"got", "contained"} /\ qkey \notin StoredKeys) =>
        /\ pc = "got" => res = Returned(None)
        /\ pc = "contained" => res = Returned(FALSE)

\* the slot the committed displacement pair of its bucket gives key index key
CommittedSlot(key) ==
    LET h == bs.hashes[key + 1]
        pair == bs.disps[ModW(h.g, Len(bs.disps)) + 1]
    IN ModW(displace(h.f1, h.f2, pair[1], pair[2]), bs.table_len)

CommittedKeys ==
    {bs.buckets[p].keys[j] : <<p, j>> \in
        {q \in (1..(bs.bpos - 1)) \X (0..bs.table_len) :
            q[2] \in 1..Len(bs.buckets[q[1]].keys)}}

\* C10: CHD builder invariant. At every step of try_build_hash_state, every bucket
\* handled so far has a committed pair under which each of its keys sits in its
\* own slot (so no slot was assigned twice and every commit went to distinct,
\* unoccupied slots), and nothing else is in the table; on success the table is
\* a permutation of 0..n-1 and every bucket, the empty ones too, has a pair.
C10_BuilderInvariant ==
    (pc = "building") =>
        /\ \A p \in 1..(bs.bpos - 1) : bs.disps[bs.buckets[p].index + 1] # NoDisp
        /\ \A key \in CommittedKeys : bs.map[CommittedSlot(key) + 1] = key
        /\ \A s \in 1..bs.table_len : bs.map[s] # None => bs.map[s] \in CommittedKeys
        /\ bs.status = "ok" =>
            /\ {bs.map[s] : s \in 1..bs.table_len} = 0..(bs.table_len - 1)
            /\ Len(bs.disps) = (bs.table_len + Lambda - 1) \div Lambda
            /\ \A b \in 1..Len(bs.disps) : Len(bs.disps[b]) = 2

\* a six-key build succeeded with one bucket empty, after some pair was refused
C10_Witness ==
    /\ pc = "building"
    /\ bs.status = "ok"
    /\ bs.table_len = 6
    /\ \E p \in 1..Len(bs.buckets) : Len(bs.buckets[p].keys) = 0
    /\ bs.generation > Len(bs.buckets)

(***************************************************************************)
(* Claims about the codec (Spec, SpecMutate, SpecDesc).                    *)
(***************************************************************************)
\* a == b as Python compares the two values
RECURSIVE py_eq(_, _)
py_eq(a, b) ==
    LET num(x) == IF x.t = "bool" THEN (IF x.bool THEN Small(1) ELSE Small(0)) ELSE x
        keys(x) == {x.kv[i][1] : i \in 1..Len(x.kv)}
    IN CASE a.t \in {"bool", "int"} /\ b.t \in {"bool", "int"} -> num(a) = num(b)
         [] a.t # b.t -> FALSE
         [] a.t = "list" ->
               /\ Len(a.items) = Len(b.items)
               /\ \A i \in 1..Len(a.items) : py_eq(a.items[i], b.items[i])
         [] a.t = "dict" ->
               /\ keys(a) = keys(b)
               /\ \A k \in keys(a) : py_eq(dict_get(a.kv, k), dict_get(b.kv, k))
         [] OTHER -> a = b

\* C1: round trip. For every tree of the supported variants that encode accepts,
\* under both map modes, decode(encode(T, options)) equals T.
C1_RoundTrip == (pc = "decoded") => py_eq(dec, tree)

\* v is a value of the data model: every byte a byte, every code point a code
\* point, every int a natural number of nine digits, every dict key a str, once
RECURSIVE WellFormed(_)
WellFormed(v) ==
    CASE v.t = "null" -> TRUE
      [] v.t = "bool" -> v.bool \in BOOLEAN
      [] v.t = "int" ->
            /\ v.neg \in BOOLEAN
            /\ Len(v.mag) = Digits
            /\ \A i \in 1..Digits : v.mag[i] \in 0..255
      [] v.t = "str" ->
            \A i \in 1..Len(v.str) :
                v.str[i] \in 0..1114111 /\ ~(v.str[i] \in 55296..57343)
      [] v.t = "bytes" -> \A i \in 1..Len(v.raw) : v.raw[i] \in 0..255
      [] v.t = "list" -> \A i \in 1..Len(v.items) : WellFormed(v.items[i])
      [] v.t = "dict" ->
            /\ \A i \in 1..Len(v.kv) :
                 /\ WellFormed(StrV(v.kv[i][1]))
                 /\ WellFormed(v.kv[i][2])
            /\ \A i, j \in 1..Len(v.kv) : v.kv[i][1] = v.kv[j][1] => i = j
      [] OTHER -> FALSE

\* the ranges of view that decode reads as names or hands to itself as the
\* views of children, at any depth
RECURSIVE ViewsTaken(_, _)
ViewsTaken(view, depth) ==
    LET tag == view[1]
        item_count == as_int(u32_at(view, 1))
        descriptor_offset ==
            IF tag = ElementType.MAP THEN 5 ELSE 9 + 8 * ((item_count + Lambda - 1) \div Lambda)
        header_read ==
            CASE tag = ElementType.ARRAY ->
                    Len(view) >= 5 /\ item_count > 0
                    /\ can_unpack(slice(view, 5, Len(view)), 0, item_count)
              [] tag = ElementType.MAP ->
                    Len(view) >= 5 /\ item_count > 0
                    /\ can_unpack(slice(view, 5, Len(view)), 0, 2 * item_count)
              [] tag = ElementType.MAP_PHF_CHD ->
                    Len(view) >= 9 /\ can_unpack(view, descriptor_offset, 2 * item_count)
              [] OTHER -> FALSE
        names == [idx \in 1..item_count |->
                    name_view(view, u32_at(view, descriptor_offset + 8 * (idx - 1)))]
        children == IF tag = ElementType.ARRAY THEN item_views(view, item_count)
                    ELSE field_views(view, item_count, descriptor_offset)
        below == UNION {ViewsTaken(children[i], depth - 1) : i \in 1..item_count}
    IN IF depth <= 0 \/ Len(view) = 0 \/ ~header_read THEN {}
       ELSE IF tag = ElementType.ARRAY
       THEN {children[i] : i \in 1..item_count} \cup below
       ELSE {names[i] : i \in 1..item_count}
            \cup {children[i] : i \in 1..item_count} \cup below

\* part is a run of consecutive bytes of buffer
IsRangeOf(part, buffer) ==
    \E k \in 0..(Len(buffer) - Len(part)) : part = SubSeq(buffer, k + 1, k + Len(part))

C5_ByteDeterminism == (pc = "reencoded") => enc2 = enc

\* a two-key dict built in the other order was encoded as a CHD map
C5_Witness ==
    /\ pc = "reencoded"
    /\ tree.t = "dict"
    /\ tree2 # tree
    /\ enc.ok
    /\ enc.bytes[1] = ElementType.MAP_PHF_CHD
    /\ Len(tree.kv) = 2

\* -2^63 <= v <= 2^64 - 1
InEncodableRange(v) ==
    /\ ~IntLess(v, IntV(TRUE, TopBit(8)))
    /\ ~IntLess(IntV(FALSE, Ones(8)), v)

\* the tag the selection rule names for v
SelectedTag(v) ==
    IF IntLess(IntV(FALSE, PredMag(TopBit(8))), v) THEN ElementType.UINT64
    ELSE IF IntLess(IntV(FALSE, Ones(4)), v) THEN ElementType.UINT32
    ELSE IF IntLess(v, IntV(TRUE, Ones(4))) THEN ElementType.INT32
    ELSE ElementType.INT64

WidthOf(tag) == IF tag \in {ElementType.INT32, ElementType.UINT32} THEN 4 ELSE 8

\* C6: integer encoding. For every integer v with -2^63 <= v <= 2^64 - 1, encode(v)
\* succeeds and returns the tag of the selection rule followed by the
\* little-endian payload of v in that type's width.
C6_IntegerEncoding ==
    (pc = "encoded" /\ tree.t = "int" /\ InEncodableRange(tree)) =>
        /\ enc.ok
        /\ enc.bytes =
             <<SelectedTag(tree)>> \o
             (IF tree.neg THEN TwosComplement(tree.mag, WidthOf(SelectedTag(tree)), 1, 1)
              ELSE SubSeq(tree.mag, 1, WidthOf(SelectedTag(tree))))

\* C7: key descriptor limits. When the descriptor of a key is packed, a key longer
\* than 255 bytes or a key offset above 2^24 - 1 makes encode fail, and a
\* descriptor that is emitted unpacks to the key's true offset and length.
C7_KeyDescriptorLimits ==
    (pc = "desc" /\ dl.idx >= 1) =>
        /\ (tree.name_len - 1 > 255 \/ dl.key_offset > 16777215) => ~dl.ok
        /\ dl.ok => /\ u32_at(dl.bytes, 0).lo24 = dl.key_offset
                    /\ u32_at(dl.bytes, 0).hi8 = tree.name_len - 1

\* the (tag, count) of every map element of an encoded document, found by
\* following the value offsets from the root
RECURSIVE MapHeaders(_)
MapHeaders(view) ==
    LET tag == view[1]
        count == as_int(u32_at(view, 1))
        at == CASE tag = ElementType.MAP -> 5
                [] tag = ElementType.MAP_PHF_CHD -> 9 + 8 * ((count + Lambda - 1) \div Lambda)
                [] OTHER -> 5
        stride == IF tag = ElementType.ARRAY THEN 4 ELSE 8
        start(i) == as_int(u32_at(view, at + stride * (i - 1) + (stride - 4)))
        child(i) == slice(view, start(i), IF i < count THEN start(i + 1) ELSE Len(view))
    IN IF tag \in {ElementType.MAP, ElementType.MAP_PHF_CHD}
       THEN <<<<tag, count>>>> \o join([i \in 1..count |-> MapHeaders(child(i))])
       ELSE IF tag = ElementType.ARRAY
       THEN join([i \in 1..count |-> MapHeaders(child(i))])
       ELSE <<>>

\* the number of dicts in a tree
RECURSIVE NumDicts(_)
NumDicts(obj) ==
    LET sum(f) == Len(join([i \in 1..Len(f) |-> [j \in 1..f[i] |-> 0]]))
    IN CASE obj.t = "dict" ->
              1 + sum([i \in 1..Len(obj.kv) |-> NumDicts(obj.kv[i][2])])
         [] obj.t = "list" -> sum([i \in 1..Len(obj.items) |-> NumDicts(obj.items[i])])
         [] OTHER -> 0

\* C8: map mode selection. In every document encode returns, each dict of the
\* tree, at any depth, is one map element whose tag is MAP_PHF_CHD when its number
\* of keys is >= phf_threshold and MAP otherwise; a dict below the threshold
\* whose values encode is never refused.
C8_MapModeSelection ==
    (pc = "encoded") =>
        /\ enc.ok =>
             /\ Len(MapHeaders(enc.bytes)) = NumDicts(tree)
             /\ \A i \in 1..Len(MapHeaders(enc.bytes)) :
                  MapHeaders(enc.bytes)[i][1] =
                    IF MapHeaders(enc.bytes)[i][2] >= thr
                    THEN ElementType.MAP_PHF_CHD ELSE ElementType.MAP
        /\ (tree \in Dicts /\ Len(tree.kv) < thr) => enc.ok /\ enc.bytes[1] = ElementType.MAP

\* a one-key ordered map holding a two-key CHD map was encoded under threshold 2
C8_Witness ==
    /\ pc = "encoded"
    /\ enc.ok
    /\ thr = 2
    /\ MapHeaders(enc.bytes) = <<<<ElementType.MAP, 1>>, <<ElementType.MAP_PHF_CHD, 2>>>>

\* the seed written in the header of a CHD map
HeaderSeed(bytes) == as_int(u32_at(bytes, 5))

BuildsAt(seed) == ~try_build_map(tree.kv, seed).none

\* C9: seed retry. When the CHD build of a map fails for seed 0x500, encode goes on
\* with seed + 1, ... and writes the first seed that builds into the header; when
\* no seed builds, the caller gets a PHF build failure and no other error.
C9_SeedRetry ==
    (pc = "encoded" /\ tree \in Dicts /\ Len(tree.kv) >= thr /\ ~BuildsAt(FirstSeed)) =>
        \/ /\ \E s \in Seeds : BuildsAt(s)
           /\ enc.ok
           /\ BuildsAt(HeaderSeed(enc.bytes))
           /\ \A s \in Seeds : s < HeaderSeed(enc.bytes) => ~BuildsAt(s)
        \/ /\ \A s \in Seeds : ~BuildsAt(s)
           /\ enc.err = "PhfBuildExhausted"

\* the children of the element view, which encodes the list or dict obj, tile
\* its values region: the first value_offset is the end of the header (and of
\* the keys of a map), child i is exactly view[value_offset[i]:value_offset[i+1]],
\* the last one view[value_offset[n]:], each child is the encoding of the item in
\* that place (of the value of the key that descriptor names), and the same
\* holds inside every child
RECURSIVE ChildrenTile(_, _, _)
ChildrenTile(view, obj, threshold) ==
    LET is_array == obj.t = "list"
        n == IF is_array THEN Len(obj.items) ELSE Len(obj.kv)
        descriptor_offset ==
            IF view[1] = ElementType.MAP_PHF_CHD
            THEN 9 + 8 * ((n + Lambda - 1) \div Lambda) ELSE 5
        stride == IF is_array THEN 4 ELSE 8
        value_offset(i) ==
            as_int(u32_at(view, descriptor_offset + stride * (i - 1) + (stride - 4)))
        keys_data(i) == u32_at(view, descriptor_offset + 8 * (i - 1))
        keys_len ==
            IF is_array THEN 0
            ELSE Len(join([i \in 1..n |-> [j \in 1..(keys_data(i).hi8 + 1) |-> 0]]))
        values_start == descriptor_offset + stride * n + keys_len
        end(i) == IF i < n THEN value_offset(i + 1) ELSE Len(view)
        name(i) == field_name(view, keys_data(i))
        named(i) == /\ name(i).t = "str"
                    /\ \E j \in 1..n : obj.kv[j][1] = name(i).str
        child(i) == IF is_array THEN obj.items[i] ELSE dict_get(obj.kv, name(i).str)
        expected(i) == encode(child(i), EncodeOptions(threshold))
    IN IF obj.t \notin {"list", "dict"} THEN TRUE
       ELSE
       /\ view[1] = IF is_array THEN ElementType.ARRAY
                    ELSE IF n >= threshold THEN ElementType.MAP_PHF_CHD ELSE ElementType.MAP
       /\ as_int(u32_at(view, 1)) = n
       /\ Len(view) >= values_start
       /\ n = 0 => Len(view) = values_start
       /\ n > 0 => value_offset(1) = values_start
       /\ \A i \in 1..n :
            /\ is_array \/ named(i)
            /\ value_offset(i) >= values_start
            /\ value_offset(i) <= end(i)
            /\ end(i) <= Len(view)
            /\ expected(i).ok
            /\ SubSeq(view, value_offset(i) + 1, end(i)) = expected(i).bytes
            /\ ChildrenTile(expected(i).bytes, child(i), threshold)

\* C11: child ranges tile the values region. In every encoded ordered map, CHD map
\* and array, at any depth, the value_offsets are absolute, non-decreasing and not
\* below the header, each points at its child's tag byte, child i occupies exactly
\* [value_offset[i], value_offset[i+1]) and the last child ends where the parent
\* ends.
C11_ChildRangesTile ==
    (pc = "encoded" /\ enc.ok) => ChildrenTile(enc.bytes, tree, thr)

\* an array of two children was encoded, the first of them a CHD map of two keys
C11_Witness ==
    /\ pc = "encoded"
    /\ enc.ok
    /\ tree.t = "list"
    /\ Len(tree.items) = 2
    /\ tree.items[1].t = "dict"
    /\ Len(tree.items[1].kv) = 2
    /\ enc.bytes[as_int(u32_at(enc.bytes, 5)) + 1] = ElementType.MAP_PHF_CHD

\* the nodes of the subtree of node k in the implicit tree of n nodes, in which
\* node j has the children 2j and 2j + 1
RECURSIVE Subtree(_, _)
Subtree(k, n) ==
    IF k > n THEN {} ELSE {k} \cup Subtree(2 * k, n) \cup Subtree(2 * k + 1, n)

\* C12: Eytzinger layout. For every list of distinct keys, _sort_eytzinger returns
\* a permutation E of the keys in which every key in the subtree of node 2k is
\* smaller than E[k-1] and every key in the subtree of node 2k + 1 is larger, so
\* the in-order walk is ascending; the ordered map emits its descriptors in the
\* order of E.
C12_EytzingerLayout ==
    (pc \in {"sorted", "laid_out"}) =>
        LET E == res.value
            n == Len(tree)
        IN /\ Len(E) = n
           /\ {E[i] : i \in 1..n} = {tree[i] : i \in 1..n}
           /\ \A k \in 1..n :
                /\ \A j \in Subtree(2 * k, n) : StrLess(E[j], E[k])
                /\ \A j \in Subtree(2 * k + 1, n) : StrLess(E[k], E[j])
           /\ pc = "laid_out" =>
                /\ enc.ok
                /\ enc.bytes[1] = ElementType.MAP
                /\ as_int(u32_at(enc.bytes, 1)) = n
                /\ \A i \in 1..n :
                     field_name(enc.bytes, u32_at(enc.bytes, 5 + 8 * (i - 1))) = StrV(E[i])

\* the keys C, A, B were laid out as B, A, C and the map's descriptors emitted
C12_Witness ==
    /\ pc = "laid_out"
    /\ tree = <<<<67>>, <<65>>, <<66>>>>
    /\ res.value = <<<<66>>, <<65>>, <<67>>>>
    /\ enc.ok

\* a + b on magnitudes, digit by digit with the carry
MagSum(a, b) ==
    LET carry[i \in 0..Digits] ==
            IF i = 0 THEN 0 ELSE (a[i] + b[i] + carry[i - 1]) \div 256
    IN [i \in 1..Digits |-> (a[i] + b[i] + carry[i - 1]) % 256]

\* 2^(8 * w)
PowerOfWidth(w) == [i \in 1..Digits |-> IF i = w + 1 THEN 1 ELSE 0]

\* the payload of an integer element read as an unsigned little-endian number
UnsignedReading(bytes) ==
    [i \in 1..Digits |-> IF i + 1 <= Len(bytes) THEN bytes[i + 1] ELSE 0]

\* C13: signed write, unsigned read. For every negative integer v that encode
\* accepts, the payload is v's two's-complement pattern in the width w of its tag
\* (INT32 or INT64) and decode(encode(v)) is the unsigned reading of it,
\* v + 2^w; a non-negative value stored as INT32 or INT64 decodes to itself.
C13_SignedWriteUnsignedRead ==
    (pc = "decoded" /\ tree.t = "int"
        /\ enc.bytes[1] \in {ElementType.INT32, ElementType.INT64}) =>
        LET w == WidthOf(enc.bytes[1])
        IN /\ Len(enc.bytes) = 1 + w
           /\ dec = IntV(FALSE, UnsignedReading(enc.bytes))
           /\ IF tree.neg
              THEN MagSum(dec.mag, tree.mag) = PowerOfWidth(w)
              ELSE dec = tree
           /\ tree.neg => enc.bytes[1 + w] >= 128

\* -1 was stored as INT64 ff ff ff ff ff ff ff ff and decoded as 2^64 - 1
C13_Witness ==
    /\ pc = "decoded"
    /\ tree = Small(-1)
    /\ enc.bytes = <<ElementType.INT64, 255, 255, 255, 255, 255, 255, 255, 255>>
    /\ dec = IntV(FALSE, Ones(8))

====
